---- MODULE Spec2Model ----
(***************************************************************************)
(* Cross-application messaging of the Angular micro frontends PoC.          *)
(*                                                                         *)
(* The model covers the shell's MicroFrontendsCommunicationService (the    *)
(* message store, the per-owner registry handles placed on                 *)
(* window.CentralizedAPI, the 'message-event' broadcast and the reactive   *)
(* cells of messageSignals), the feature apps' CommunicationService (the   *)
(* listener that keeps the local messages list, sendMessageTo) and the     *)
(* component constructors that call them.                                  *)
(*                                                                         *)
(* The services are modelled as units: their public operations may be      *)
(* called in any order that the objects' lifecycles allow, so a feature    *)
(* service may exist before init() has run (the standalone bootstrap of a  *)
(* feature app, or a host that initialises late).                          *)
(*                                                                         *)
(* dispatchEvent is synchronous: a publish and the handlers it runs are    *)
(* one step.                                                               *)
(***************************************************************************)
EXTENDS Integers, Sequences, FiniteSets, TLC

(* ------------------------------ bounds -------------------------------- *)

\* Longest message store explored (the code has no capacity limit).
MaxStore == 2

\* Largest value Date.now() reads (timestamps are 0..MaxClock).
MaxClock == 1

\* Most calls of init() explored (each call registers one more shell listener).
MaxInit == 2

\* Most activations of the all-micro-frontends view counted.
MaxView == 2

(* ----------------------------- identities ----------------------------- *)

FeatureOne == "feature-one-app"

FeatureTwo == "feature-two-app"

\* Object.keys(Microfrontends): the remotes of mf.manifest.json.
microfrontends == <<FeatureOne, FeatureTwo>>

SHELL_NAME == "application-shell"

\* environment.appName of each feature app's CommunicationService.
FeatureApps == {FeatureOne, FeatureTwo}

Owners == FeatureApps \cup {SHELL_NAME}

\* The default message type of sendMessageTo and getMessageSignal.
DefaultType == "default"

\* Message types tried: the default one and the empty string.
Types == {DefaultType, ""}

\* Texts a user types into the message inputs.
Payloads == {"a", "b"}

\* Initial value of FeatureTwoApp.messageToSend.
HelloFromFeatureTwo == "Hello from Feature Two!"

Clock == 0..MaxClock

\* The value of an absent optional argument / an undefined cell: a cell or
\* an optional value is a sequence of length 0 (undefined) or 1.
Undefined == <<>>

Some(x) == <<x>>

(* ------------------------------- state -------------------------------- *)

VARIABLES
  messageStore,     \* MicroFrontendsCommunicationService.messageStore
  messageSignals,   \* MicroFrontendsCommunicationService.messageSignals: key -> cell value
  signalRefs,       \* which cell object messageSignals holds under each key (see NewCell)
  CentralizedAPI,   \* window.CentralizedAPI: [defined, owners]
  listeners,        \* 'message-event' listeners of window, in registration order
  messages,         \* CommunicationService.messages of each feature app
  appConstructed,   \* the shell's root component App has been constructed
  outcome,          \* what the last send attempt did: "none" (no attempt yet), "sent", "warned" or "threw"
  lastCall,         \* history: the arguments of the last sendMessage call (a cell)
  publishes,        \* history: number of sendMessage calls that returned
  dispatched,       \* history: number of 'message-event' notifications dispatched
  lastEvent,        \* history: detail.message of the last notification (a cell)
  storeAtDispatch,  \* history: this.messageStore as it was when dispatchEvent was last called
  regAt,            \* history: store length when each feature listener was registered (-1: not yet)
  earlySendDropped, \* history: FeatureTwoApp's constructor-time send found no handle
  viewActivations   \* history: number of activations of the all-micro-frontends view

vars == <<messageStore, messageSignals, signalRefs, CentralizedAPI, listeners, messages,
          appConstructed, outcome, lastCall, publishes, dispatched, lastEvent,
          storeAtDispatch, regAt, earlySendDropped, viewActivations>>

(* ------------------------- the registry handles ----------------------- *)

\* Variant of Message for a sendMessage that takes the sender from its first
\* argument instead of the handle's owner.
MessageFromArgument(from, to, type, payload, timestamp) ==
  [from |-> to, to |-> to, type |-> type, payload |-> payload, timestamp |-> timestamp]

\* The record built by sendMessage.
Message(from, to, type, payload, timestamp) ==
  [from |-> from, to |-> to, type |-> type, payload |-> payload, timestamp |-> timestamp]

\* `${from}:${to}:${type}`
SignalKey(from, to, type) == from \o ":" \o to \o ":" \o type

\* !filterType: undefined and the empty string are falsy.
Falsy(filterType) == filterType = Undefined \/ filterType = Some("")

\* Variant of getMessages selecting on the sender: msg.from === owner.
getMessagesBySender(s, owner, filterType) ==
  SelectSeq(s, LAMBDA msg : msg.from = owner /\ (Falsy(filterType) \/ Some(msg.type) = filterType))

\* getMessages(filterType?) of owner's handle over store s.
getMessages(s, owner, filterType) ==
  SelectSeq(s, LAMBDA msg : msg.to = owner /\ (Falsy(filterType) \/ Some(msg.type) = filterType))

\* Variant of InsertByTimestampDesc for the comparator a.timestamp - b.timestamp
\* (ascending).
RECURSIVE InsertByTimestampAsc(_, _)
InsertByTimestampAsc(s, m) ==
  IF s = <<>> THEN <<m>>
  ELSE IF Head(s).timestamp <= m.timestamp
       THEN <<Head(s)>> \o InsertByTimestampAsc(Tail(s), m)
       ELSE <<m>> \o s

\* Insert m into the sorted sequence s behind every element that the comparator
\* (a, b) => b.timestamp - a.timestamp does not order after it (stable).
RECURSIVE InsertByTimestampDesc(_, _)
InsertByTimestampDesc(s, m) ==
  IF s = <<>> THEN <<m>>
  ELSE IF Head(s).timestamp >= m.timestamp
       THEN <<Head(s)>> \o InsertByTimestampDesc(Tail(s), m)
       ELSE <<m>> \o s

\* Array.prototype.sort((a, b) => b.timestamp - a.timestamp): stable, descending.
RECURSIVE SortByTimestampDesc(_)
SortByTimestampDesc(s) ==
  IF s = <<>> THEN <<>>
  ELSE InsertByTimestampDesc(SortByTimestampDesc(SubSeq(s, 1, Len(s) - 1)), s[Len(s)])

\* getLatestMessage(type) of owner's handle over store s: messages[0], a cell.
getLatestMessage(s, owner, type) ==
  LET sorted == SortByTimestampDesc(SelectSeq(s, LAMBDA msg : msg.to = owner /\ msg.type = type))
  IN IF sorted = <<>> THEN Undefined ELSE Some(sorted[1])

\* Variant of PushMessage: this.messageStore.unshift(message).
PushMessageUnshift(s, message) == <<message>> \o s

\* Variant of PushMessage that skips a record already stored.
PushMessageDedup(s, message) ==
  IF \E i \in DOMAIN s : s[i] = message THEN s ELSE Append(s, message)

\* Variant of PushMessage for a store that keeps only the newest record.
PushMessageKeepLast(s, message) == <<message>>

\* this.messageStore.push(message)
PushMessage(s, message) == Append(s, message)

(* ----------------------------- listeners ------------------------------ *)

\* Variant of ShellListener without the update of the generic cell
\* `${from}:${to}:default`.
ShellListenerOwnKeyOnly(signals, message) ==
  LET signalKey == SignalKey(message.from, message.to, message.type)
  IN [k \in DOMAIN signals \cup {signalKey} |->
        IF k = signalKey THEN Some(message) ELSE signals[k]]

\* The shell's listener (setupCommunication): sets the cell of the message's
\* key, creating it when absent, then the cell of `${from}:${to}:default`.
ShellListener(signals, message) ==
  LET signalKey == SignalKey(message.from, message.to, message.type)
      defaultSignalKey == SignalKey(message.from, message.to, DefaultType)
  IN [k \in DOMAIN signals \cup {signalKey, defaultSignalKey} |->
        IF k \in {signalKey, defaultSignalKey} THEN Some(message) ELSE signals[k]]

\* The identity of a cell created by signal(undefined) for key: the number of
\* cells created for that key before it (two cells are the same object exactly
\* when they were created for the same key with the same number).
NewCell(refs, key) == IF key \in DOMAIN refs THEN refs[key] + 1 ELSE 0

\* messageSignals.set(key, cell)
SetCell(refs, key, cell) ==
  [k \in DOMAIN refs \cup {key} |-> IF k = key THEN cell ELSE refs[k]]

\* Variant of ShellListenerRefs that stores a new signal under the generic key
\* on every notification: messageSignals.set(defaultSignalKey, signal(message)).
ShellListenerRefsFreshDefault(refs, message) ==
  LET signalKey == SignalKey(message.from, message.to, message.type)
      defaultSignalKey == SignalKey(message.from, message.to, DefaultType)
      withKey == IF signalKey \in DOMAIN refs THEN refs
                 ELSE SetCell(refs, signalKey, NewCell(refs, signalKey))
  IN SetCell(withKey, defaultSignalKey, NewCell(withKey, defaultSignalKey))

\* The cell objects in messageSignals after the shell's listener: a cell is
\* created for the message's key only when the key is absent
\* (if (!signalRef)), and the generic key keeps the cell it has
\* (messageSignals.get(defaultSignalKey) || signal(undefined), set back).
ShellListenerRefs(refs, message) ==
  LET signalKey == SignalKey(message.from, message.to, message.type)
      defaultSignalKey == SignalKey(message.from, message.to, DefaultType)
      withKey == IF signalKey \in DOMAIN refs THEN refs
                 ELSE SetCell(refs, signalKey, NewCell(refs, signalKey))
  IN IF defaultSignalKey \in DOMAIN withKey
     THEN SetCell(withKey, defaultSignalKey, withKey[defaultSignalKey])
     ELSE SetCell(withKey, defaultSignalKey, NewCell(withKey, defaultSignalKey))

\* Variant of FeatureListener without the test message.to === this.appName.
FeatureListenerUnfiltered(appName, list, message) == Append(list, message)

\* Variant of FeatureListener that puts the new message first:
\* [message, ...currentMessages].
FeatureListenerPrepend(appName, list, message) ==
  IF message.to = appName THEN <<message>> \o list ELSE list

\* Variant of FeatureListener that keeps only the latest message:
\* this.messages.set([message]).
FeatureListenerLatestOnly(appName, list, message) ==
  IF message.to = appName THEN <<message>> ELSE list

\* A feature app's listener (setupMessageListener): appends the message to the
\* local list when it is addressed to this app.
FeatureListener(appName, list, message) ==
  IF message.to = appName THEN Append(list, message) ELSE list

\* Variant of DispatchEvent in which every feature app's listener is on window
\* from the start (registered when the bundle loads, not when the service is
\* constructed), whatever ls holds.
RECURSIVE DispatchEventAllApps(_, _, _, _)
DispatchEventAllApps(ls, signals, lists, message) ==
  IF ls = <<>>
  THEN [signals |-> signals,
        lists |-> [a \in DOMAIN lists |-> FeatureListener(a, lists[a], message)]]
  ELSE IF Head(ls) = SHELL_NAME
       THEN DispatchEventAllApps(Tail(ls), ShellListener(signals, message), lists, message)
       ELSE DispatchEventAllApps(Tail(ls), signals, lists, message)

\* window.dispatchEvent: every registered listener handles the event, in
\* registration order. Returns the cells and the local lists afterwards.
RECURSIVE DispatchEvent(_, _, _, _)
DispatchEvent(ls, signals, lists, message) ==
  IF ls = <<>> THEN [signals |-> signals, lists |-> lists]
  ELSE IF Head(ls) = SHELL_NAME
       THEN DispatchEvent(Tail(ls), ShellListener(signals, message), lists, message)
       ELSE DispatchEvent(Tail(ls), signals,
              [lists EXCEPT ![Head(ls)] = FeatureListener(Head(ls), @, message)], message)

\* The cell objects in messageSignals after window.dispatchEvent: every shell
\* listener among ls runs once.
RECURSIVE DispatchEventRefs(_, _, _)
DispatchEventRefs(ls, refs, message) ==
  IF ls = <<>> THEN refs
  ELSE IF Head(ls) = SHELL_NAME
       THEN DispatchEventRefs(Tail(ls), ShellListenerRefs(refs, message), message)
       ELSE DispatchEventRefs(Tail(ls), refs, message)

\* window.CentralizedAPI?.[name]: is there a handle for name.
HasApi(name) == CentralizedAPI.defined /\ name \in CentralizedAPI.owners

\* Variant of storeSeenByListeners for a sendMessage that dispatches the event
\* before it pushes the record.
storeSeenBeforePush(s, message) == s

\* The store that the listeners of a notification can read: sendMessage pushes
\* the record first and calls dispatchEvent after.
storeSeenByListeners(s, message) == PushMessage(s, message)

\* Variant of sendMessage that leaves the notification to a later task
\* (setTimeout(() => window.dispatchEvent(...))): the call returns with the
\* record stored and no listener run.
sendMessageDeferred(ls, owner, to, type, payload, timestamp) ==
  LET message == Message(owner, to, type, payload, timestamp)
  IN /\ lastCall' = Some([owner |-> owner, to |-> to, type |-> type, payload |-> payload])
     /\ messageStore' = PushMessage(messageStore, message)
     /\ publishes' = publishes + 1
     /\ outcome' = "sent"
     /\ UNCHANGED <<messageSignals, signalRefs, messages, dispatched, lastEvent, storeAtDispatch>>

\* handle.sendMessage(to, type, payload) of owner's handle, reading timestamp
\* from Date.now(): builds the record, pushes it, dispatches the notification
\* to the listeners ls registered on window at that moment.
sendMessage(ls, owner, to, type, payload, timestamp) ==
  LET message == Message(owner, to, type, payload, timestamp)
      after == DispatchEvent(ls, messageSignals, messages, message)
  IN /\ lastCall' = Some([owner |-> owner, to |-> to, type |-> type, payload |-> payload])
     /\ messageStore' = PushMessage(messageStore, message)
     /\ messageSignals' = after.signals
     /\ signalRefs' = DispatchEventRefs(ls, signalRefs, message)
     /\ messages' = after.lists
     /\ dispatched' = dispatched + 1
     /\ lastEvent' = Some(message)
     /\ storeAtDispatch' = storeSeenByListeners(messageStore, message)
     /\ publishes' = publishes + 1
     /\ outcome' = "sent"

\* The else branch of sendMessageTo / sendMessageToMicroFrontend: console.warn.
warn ==
  /\ outcome' = "warned"
  /\ UNCHANGED <<messageStore, messageSignals, signalRefs, messages, dispatched, lastEvent,
                 publishes, lastCall, storeAtDispatch>>

(* ------------------------ the shell's service ------------------------- *)

\* initializeSignals(): two cells per manifest entry, all undefined.
initializeSignals ==
  LET keys == {microfrontends[i] \o ":" \o DefaultType : i \in DOMAIN microfrontends}
              \cup {SignalKey(SHELL_NAME, microfrontends[i], DefaultType) : i \in DOMAIN microfrontends}
  IN [k \in keys |-> Undefined]

\* The cell objects that initializeSignals() stores: one new cell per key.
initializeSignalRefs == [k \in DOMAIN initializeSignals |-> NewCell(<<>>, k)]

\* getMessageSignal(fromMf, toMf, type): the cell objects in messageSignals
\* afterwards; the cell returned is the one under the key.
getMessageSignalRefs(refs, fromMf, toMf, type) ==
  LET signalKey == SignalKey(fromMf, toMf, type)
  IN IF signalKey \in DOMAIN refs THEN refs
     ELSE SetCell(refs, signalKey, NewCell(refs, signalKey))

\* getMessageSignal(fromMf, toMf, type): the cells afterwards (the cell of the
\* key is created undefined when absent).
getMessageSignal(signals, fromMf, toMf, type) ==
  LET signalKey == SignalKey(fromMf, toMf, type)
  IN IF signalKey \in DOMAIN signals THEN signals
     ELSE [k \in DOMAIN signals \cup {signalKey} |-> IF k = signalKey THEN Undefined ELSE signals[k]]

\* init(): a fresh handle per manifest entry and one for the shell replace
\* window.CentralizedAPI; setupCommunication() adds one more shell listener.
initBody ==
  /\ CentralizedAPI' = [defined |-> TRUE,
                        owners |-> {microfrontends[i] : i \in DOMAIN microfrontends} \cup {SHELL_NAME}]
  /\ listeners' = Append(listeners, SHELL_NAME)

ShellListeners == Len(SelectSeq(listeners, LAMBDA l : l = SHELL_NAME))

\* Variant of init that starts over with an empty message store.
initWithEmptyStore ==
  /\ ShellListeners < MaxInit
  /\ initBody
  /\ messageStore' = <<>>
  /\ UNCHANGED <<messageSignals, signalRefs, messages, appConstructed, publishes,
                 outcome, lastCall, dispatched, lastEvent, storeAtDispatch, regAt,
                 earlySendDropped, viewActivations>>

\* A call of the public init().
init ==
  /\ ShellListeners < MaxInit
  /\ initBody
  /\ UNCHANGED <<messageStore, messageSignals, signalRefs, messages, appConstructed, publishes,
                 outcome, lastCall, dispatched, lastEvent, storeAtDispatch, regAt,
                 earlySendDropped, viewActivations>>

\* Variant of AppConstructor whose constructor does not call init().
AppConstructorWithoutInit ==
  /\ ~appConstructed
  /\ appConstructed' = TRUE
  /\ messageSignals' = getMessageSignal(
         getMessageSignal(messageSignals, FeatureOne, SHELL_NAME, DefaultType),
         FeatureTwo, SHELL_NAME, DefaultType)
  /\ signalRefs' = getMessageSignalRefs(
         getMessageSignalRefs(signalRefs, FeatureOne, SHELL_NAME, DefaultType),
         FeatureTwo, SHELL_NAME, DefaultType)
  /\ UNCHANGED <<messageStore, messages, publishes, outcome, lastCall, dispatched, lastEvent,
                 storeAtDispatch, regAt, earlySendDropped, CentralizedAPI, listeners,
                 viewActivations>>

\* new App(): the field initialisers take the cells of the two feature apps'
\* default messages to the shell, the constructor calls init().
AppConstructor ==
  /\ ~appConstructed
  /\ ShellListeners < MaxInit
  /\ appConstructed' = TRUE
  /\ messageSignals' = getMessageSignal(
         getMessageSignal(messageSignals, FeatureOne, SHELL_NAME, DefaultType),
         FeatureTwo, SHELL_NAME, DefaultType)
  /\ signalRefs' = getMessageSignalRefs(
         getMessageSignalRefs(signalRefs, FeatureOne, SHELL_NAME, DefaultType),
         FeatureTwo, SHELL_NAME, DefaultType)
  /\ initBody
  /\ UNCHANGED <<messageStore, messages, publishes, outcome, lastCall, dispatched, lastEvent,
                 storeAtDispatch, regAt, earlySendDropped, viewActivations>>

\* sendMessageToMicroFrontend(targetMf, type, payload)
sendMessageToMicroFrontend(targetMf, type, payload) ==
  /\ IF HasApi(SHELL_NAME)
     THEN /\ Len(messageStore) < MaxStore
          /\ \E now \in Clock : sendMessage(listeners, SHELL_NAME, targetMf, type, payload, now)
     ELSE warn
  /\ UNCHANGED <<CentralizedAPI, listeners, appConstructed, regAt, earlySendDropped,
                 viewActivations>>

\* Variant of storeAfterQuery for a getLatestMessage that sorts
\* this.messageStore itself (sort without the filter's copy).
storeSortedInPlace(s) == SortByTimestampDesc(s)

\* The store after a query of a handle: Array.prototype.filter returns a new
\* array, and getLatestMessage sorts that copy in place, so this.messageStore
\* itself is left as it was.
storeAfterQuery(s) == s

\* A call of getMessages(filterType?) on a handle of the registry. The owner
\* and the filter decide the value returned (the operator getMessages), not
\* the state afterwards.
GetMessages ==
  /\ CentralizedAPI.defined
  /\ messageStore' = storeAfterQuery(messageStore)
  /\ UNCHANGED <<messageSignals, signalRefs, CentralizedAPI, listeners, messages,
                 appConstructed, outcome, lastCall, publishes, dispatched, lastEvent,
                 storeAtDispatch, regAt, earlySendDropped, viewActivations>>

\* A call of getLatestMessage(type) on a handle of the registry. The owner and
\* the type decide the value returned (the operator getLatestMessage), not the
\* state afterwards.
GetLatestMessage ==
  /\ CentralizedAPI.defined
  /\ messageStore' = storeAfterQuery(messageStore)
  /\ UNCHANGED <<messageSignals, signalRefs, CentralizedAPI, listeners, messages,
                 appConstructed, outcome, lastCall, publishes, dispatched, lastEvent,
                 storeAtDispatch, regAt, earlySendDropped, viewActivations>>

(* ----------------------- the feature apps' service -------------------- *)

serviceConstructed(appName) == regAt[appName] >= 0

\* Variant of constructService that sets the listener up only when the app's
\* handle is there: if (this.getAppApi()) this.setupMessageListener().
constructServiceWhenApiReady(appName) ==
  IF serviceConstructed(appName) \/ ~HasApi(appName)
  THEN UNCHANGED <<listeners, regAt>>
  ELSE /\ listeners' = Append(listeners, appName)
       /\ regAt' = [regAt EXCEPT ![appName] = Len(messageStore)]

\* new CommunicationService(): setupMessageListener(). The listener list and
\* the registration point afterwards.
constructService(appName) ==
  IF serviceConstructed(appName)
  THEN UNCHANGED <<listeners, regAt>>
  ELSE /\ listeners' = Append(listeners, appName)
       /\ regAt' = [regAt EXCEPT ![appName] = Len(messageStore)]

\* Variant of sendMessageTo without the test of `api`: calling sendMessage on
\* undefined throws a TypeError.
sendMessageToUnchecked(ls, appName, message, to, type) ==
  IF HasApi(appName)
  THEN /\ Len(messageStore) < MaxStore
       /\ \E now \in Clock : sendMessage(ls, appName, to, type, message, now)
  ELSE /\ outcome' = "threw"
       /\ UNCHANGED <<messageStore, messageSignals, signalRefs, messages, dispatched, lastEvent,
                      publishes, lastCall, storeAtDispatch>>

\* sendMessageTo(message, to, type) of appName's service, with the listeners
\* ls registered on window.
sendMessageTo(ls, appName, message, to, type) ==
  IF HasApi(appName)
  THEN /\ Len(messageStore) < MaxStore
       /\ \E now \in Clock : sendMessage(ls, appName, to, type, message, now)
  ELSE warn

\* A later call of sendMessageTo (sendMessageToShell, sendMessageToFeatureOne,
\* sendMessageToFeatureTwo, or the service used directly).
FeatureSend(appName, message, to, type) ==
  /\ serviceConstructed(appName)
  /\ sendMessageTo(listeners, appName, message, to, type)
  /\ UNCHANGED <<CentralizedAPI, listeners, appConstructed, regAt, earlySendDropped,
                 viewActivations>>

\* getMessagesFrom(source) of appName's service.
getMessagesFrom(appName, source) ==
  SelectSeq(messages[appName], LAMBDA msg : msg.from = source)

Active == "Active - Messages Received"

Waiting == "Waiting for message"

\* communicationStatus / featureOneCommunicationStatus /
\* featureTwoCommunicationStatus of a feature app's component: computed from
\* getMessagesFrom(source).length > 0.
communicationStatus(appName, source) ==
  IF Len(getMessagesFrom(appName, source)) > 0 THEN Active ELSE Waiting

\* new FeatureOneApp(): injects (and on first use constructs) the service.
FeatureOneAppConstructor ==
  /\ constructService(FeatureOne)
  /\ UNCHANGED <<outcome, lastCall, messageStore, messageSignals, signalRefs, CentralizedAPI,
                 messages, appConstructed, publishes, dispatched, lastEvent, storeAtDispatch,
                 earlySendDropped, viewActivations>>

\* new FeatureTwoApp(): injects (and on first use constructs) the service, then
\* sendMessageToShell() with the initial text of messageToSend.
FeatureTwoAppConstructor ==
  /\ constructService(FeatureTwo)
  /\ sendMessageTo(listeners', FeatureTwo, HelloFromFeatureTwo, SHELL_NAME, DefaultType)
  /\ earlySendDropped' = (earlySendDropped \/ ~HasApi(FeatureTwo))
  /\ UNCHANGED <<CentralizedAPI, appConstructed, viewActivations>>

\* App.communicationStatus of the shell: computed from messageFromFeatureOne(),
\* the cell of feature one's default messages to the shell.
shellCommunicationStatus ==
  LET signalKey == SignalKey(FeatureOne, SHELL_NAME, DefaultType)
  IN IF signalKey \in DOMAIN messageSignals /\ messageSignals[signalKey] # Undefined
     THEN "Active - Message Received" ELSE Waiting

(* ------------------------- the shell's routes ------------------------- *)

\* Path 'one' of the shell's router: loadComponent resolves to FeatureOneApp,
\* which Angular constructs inside App's router outlet.
RouteOne ==
  /\ appConstructed
  /\ FeatureOneAppConstructor

\* Path 'two' of the shell's router: loadComponent resolves to FeatureTwoApp,
\* which Angular constructs inside App's router outlet.
RouteTwo ==
  /\ appConstructed
  /\ FeatureTwoAppConstructor

(* ------------------- the all-micro-frontends view --------------------- *)

\* Variant of ngOnInit that calls init() without looking at
\* window.CentralizedAPI.
ngOnInitAlwaysInit ==
  /\ viewActivations < MaxView
  /\ viewActivations' = viewActivations + 1
  /\ ShellListeners < MaxInit
  /\ initBody
  /\ UNCHANGED <<messageStore, messageSignals, signalRefs, messages, appConstructed, publishes,
                 outcome, lastCall, dispatched, lastEvent, storeAtDispatch, regAt,
                 earlySendDropped>>

\* AllMicroFrontendsComponent.ngOnInit(): init() only if (!window.CentralizedAPI).
\* (ngAfterViewInit then creates FeatureOneApp and FeatureTwoApp in later
\* tasks: the steps RouteOne and RouteTwo.)
ngOnInit ==
  /\ viewActivations < MaxView
  /\ viewActivations' = viewActivations + 1
  /\ IF ~CentralizedAPI.defined
     THEN /\ ShellListeners < MaxInit
          /\ initBody
     ELSE UNCHANGED <<CentralizedAPI, listeners>>
  /\ UNCHANGED <<messageStore, messageSignals, signalRefs, messages, appConstructed, publishes,
                 outcome, lastCall, dispatched, lastEvent, storeAtDispatch, regAt,
                 earlySendDropped>>

\* Path 'all' of the shell's router: the view is activated inside App's router
\* outlet.
RouteAll ==
  /\ appConstructed
  /\ ngOnInit

(* --------------------------- the state machine ------------------------ *)

Init ==
  /\ messageStore = <<>>
  /\ messageSignals = initializeSignals
  /\ signalRefs = initializeSignalRefs
  /\ CentralizedAPI = [defined |-> FALSE, owners |-> {}]
  /\ listeners = <<>>
  /\ messages = [a \in FeatureApps |-> <<>>]
  /\ appConstructed = FALSE
  /\ outcome = "none"
  /\ lastCall = Undefined
  /\ publishes = 0
  /\ dispatched = 0
  /\ lastEvent = Undefined
  /\ storeAtDispatch = <<>>
  /\ regAt = [a \in FeatureApps |-> -1]
  /\ earlySendDropped = FALSE
  /\ viewActivations = 0

ShellSend ==
  \E targetMf \in Owners, type \in Types, payload \in Payloads :
    sendMessageToMicroFrontend(targetMf, type, payload)

FeatureSendAny ==
  \E appName \in FeatureApps, message \in Payloads, to \in Owners, type \in Types :
    FeatureSend(appName, message, to, type)

Next ==
  \/ init
  \/ AppConstructor
  \/ ShellSend
  \/ GetMessages
  \/ GetLatestMessage
  \/ FeatureOneAppConstructor
  \/ FeatureTwoAppConstructor
  \/ RouteOne
  \/ RouteTwo
  \/ FeatureSendAny

Spec == Init /\ [][Next]_vars

\* The shell application as the browser runs it: the root component App is
\* constructed first and its router activates the three routes; init() has no
\* caller other than App's constructor and the view.
ShellNext ==
  \/ AppConstructor
  \/ RouteAll
  \/ RouteOne
  \/ RouteTwo
  \/ ShellSend
  \/ FeatureSendAny

ShellSpec == Init /\ [][ShellNext]_vars

\* Targets and types with a ':' in them, as a caller of sendMessage or of
\* getMessageSignal may pass (both take any string).
FreeFormTargets == {"x", "x:y"}

FreeFormTypes == {"z", "y:z"}

\* sendMessageToMicroFrontend with a free-form target and type.
FreeFormSend ==
  \E targetMf \in FreeFormTargets, type \in FreeFormTypes, payload \in Payloads :
    sendMessageToMicroFrontend(targetMf, type, payload)

\* The shell's service used with free-form targets and types.
FreeFormNext ==
  \/ init
  \/ FreeFormSend

FreeFormSpec == Init /\ [][FreeFormNext]_vars

(* ------------------------------ properties ---------------------------- *)

\* Indices of the stored records addressed to owner.
AddressedTo(owner) == {i \in DOMAIN messageStore : messageStore[i].to = owner}

\* Indices of the stored records addressed to owner with the given type.
Matching(owner, type) == {i \in AddressedTo(owner) : messageStore[i].type = type}

\* The k-th smallest element of a finite set of numbers.
Nth(S, k) == CHOOSE i \in S : Cardinality({j \in S : j < i}) = k - 1

\* r lists exactly the stored records at the indices idx, in store order.
ListsInOrder(r, idx) ==
  /\ Len(r) = Cardinality(idx)
  /\ \A k \in 1..Len(r) : r[k] = messageStore[Nth(idx, k)]

Max(S) == CHOOSE i \in S : \A j \in S : j <= i

IsPrefix(s, t) == Len(s) <= Len(t) /\ \A i \in 1..Len(s) : s[i] = t[i]

\* C1: getMessages() without a filter on owner's handle returns exactly the
\* stored records whose `to` is owner, each once, in publish order, and never a
\* record addressed to another identity.
C1_QueryReturnsAddressedInOrder ==
  \A owner \in Owners :
    LET r == getMessages(messageStore, owner, Undefined)
    IN /\ ListsInOrder(r, AddressedTo(owner))
       /\ \A k \in 1..Len(r) : r[k].to = owner

\* C1 witness: the shell has published one record to feature one and another
\* record went elsewhere; query(feature one) has length 1, query(feature two) is empty.
C1_Witness ==
  /\ Len(messageStore) = 2
  /\ messageStore[1].from = SHELL_NAME /\ messageStore[1].to = FeatureOne
  /\ messageStore[2].to = SHELL_NAME
  /\ getMessages(messageStore, FeatureOne, Undefined) = <<messageStore[1]>>
  /\ getMessages(messageStore, FeatureTwo, Undefined) = <<>>

\* C2 (as claimed): for every filter string that is supplied, the empty string
\* included, getMessages(filterType) returns exactly the stored records with
\* `to` = owner and `type` = filterType, in insertion order.
C2_FilterRestrictsToType ==
  \A owner \in Owners, filterType \in Types :
    ListsInOrder(getMessages(messageStore, owner, Some(filterType)), Matching(owner, filterType))

\* C3: getLatestMessage(type) is undefined iff no stored record matches
\* (owner, type); otherwise it is a stored matching record whose timestamp is
\* at least that of every matching record.
C3_LatestHasMaxTimestamp ==
  \A owner \in Owners, type \in Types :
    LET r == getLatestMessage(messageStore, owner, type)
    IN /\ (r = Undefined) <=> (Matching(owner, type) = {})
       /\ r # Undefined =>
            /\ \E i \in Matching(owner, type) : messageStore[i] = r[1]
            /\ \A j \in Matching(owner, type) : messageStore[j].timestamp <= r[1].timestamp

\* C3 witness: two matching records, the one inserted first carries the larger
\* timestamp, and it is the one returned.
C3_Witness ==
  /\ Len(messageStore) = 2
  /\ messageStore[1].to = FeatureOne /\ messageStore[2].to = FeatureOne
  /\ messageStore[1].type = DefaultType /\ messageStore[2].type = DefaultType
  /\ messageStore[1].timestamp > messageStore[2].timestamp
  /\ getLatestMessage(messageStore, FeatureOne, DefaultType) = Some(messageStore[1])

\* C4 (as claimed): when several matching records share the maximum timestamp,
\* getLatestMessage(type) returns the one of them inserted most recently.
C4_TieBrokenByLatestInsertion ==
  \A owner \in Owners, type \in Types :
    LET m == Matching(owner, type)
        top == {i \in m : \A j \in m : messageStore[j].timestamp <= messageStore[i].timestamp}
    IN Cardinality(top) >= 2 =>
         getLatestMessage(messageStore, owner, type) = Some(messageStore[Max(top)])

\* C5 (as claimed): getLatestMessage(type) returns the record appended last
\* among those with `to` = owner and `type` = type, whatever the clock read at
\* each publish (payload 'a' then 'b' to the same key: the record with 'b').
C5_LatestIsLastAppended ==
  \A owner \in Owners, type \in Types :
    getLatestMessage(messageStore, owner, type) =
      IF Matching(owner, type) = {} THEN Undefined
      ELSE Some(messageStore[Max(Matching(owner, type))])

\* C6: a feature subscriber registered with identity X holds every record
\* addressed to X that was published since it registered, exactly once each,
\* in publish order, and no record addressed to another identity; a subscriber
\* not registered holds nothing.
C6_DeliveredExactlyOnceToAddressee ==
  \A appName \in FeatureApps :
    IF serviceConstructed(appName)
    THEN ListsInOrder(messages[appName],
                      {i \in AddressedTo(appName) : i > regAt[appName]})
    ELSE messages[appName] = <<>>

\* C6 witness: both feature subscribers are registered, then a record addressed
\* to feature one is published: feature one holds it once, feature two does not.
C6_Witness ==
  /\ serviceConstructed(FeatureOne) /\ serviceConstructed(FeatureTwo)
  /\ regAt[FeatureOne] = 0 /\ regAt[FeatureTwo] = 0
  /\ Len(messageStore) = 1 /\ messageStore[1].to = FeatureOne
  /\ messages[FeatureOne] = <<messageStore[1]>>
  /\ messages[FeatureTwo] = <<>>

\* A step in which a party calls a send operation while window.CentralizedAPI
\* holds no handle for it.
SendWithoutHandle ==
  \/ ~HasApi(SHELL_NAME) /\ ShellSend
  \/ \E appName \in FeatureApps : ~HasApi(appName) /\
       \E message \in Payloads, to \in Owners, type \in Types : FeatureSend(appName, message, to, type)
  \/ ~HasApi(FeatureTwo) /\ FeatureTwoAppConstructor

\* C7: a send attempted while the registry holds no handle for the caller does
\* not throw, warns, and changes neither the store, the cells, the local
\* lists nor the registry, and dispatches nothing.
C7_SendWithoutHandleWarnsOnly ==
  [][SendWithoutHandle =>
       /\ outcome' = "warned"
       /\ UNCHANGED <<messageStore, messageSignals, messages, CentralizedAPI, dispatched>>]_vars

\* C7 witness: a feature service exists, the registry does not, and the last
\* send attempt was answered by the warning.
C7_Witness ==
  /\ ~CentralizedAPI.defined
  /\ serviceConstructed(FeatureOne)
  /\ outcome = "warned"
  /\ messageStore = <<>>

\* The store holds feature two's constructor-time message to the shell.
HelloStored ==
  \E i \in DOMAIN messageStore :
    /\ messageStore[i].from = FeatureTwo /\ messageStore[i].to = SHELL_NAME
    /\ messageStore[i].payload = HelloFromFeatureTwo

\* C8 (as claimed): a message whose send found the centralized API unavailable
\* is sent once the API is ready, without the caller sending again. The code
\* has no timer, queue or retry, so the only step that could send it without a
\* new call is the one that makes the API ready.
C8_DroppedSendIsSentWhenReady ==
  (earlySendDropped /\ HasApi(FeatureTwo)) => HelloStored

\* C9: the store is append-only: every step leaves the previous content as a
\* prefix of the new content (same records at the same indices).
C9_StoreAppendOnly ==
  [][IsPrefix(messageStore, messageStore')]_vars

\* C9 witness: two publishes have acted on the store.
C9_Witness ==
  /\ Len(messageStore) = 2
  /\ messageStore[1] # messageStore[2]

\* C10: the store length equals the number of successful publishes and the
\* number of notifications dispatched; the last record carries the given
\* owner, to, type and payload and is the detail.message of the last
\* notification.
C10_OneRecordOneEventPerPublish ==
  /\ Len(messageStore) = publishes
  /\ dispatched = publishes
  /\ publishes > 0 =>
       LET last == messageStore[Len(messageStore)]
       IN /\ lastEvent = Some(last)
          /\ lastCall = Some([owner |-> last.from, to |-> last.to, type |-> last.type,
                              payload |-> last.payload])

\* C10 witness: the same record was published twice and is stored twice.
C10_Witness ==
  /\ publishes = 2
  /\ Len(messageStore) = 2
  /\ messageStore[1] = messageStore[2]

\* The last record of the store.
LastStored == messageStore[Len(messageStore)]

\* The value of the cell that getMessageSignal(from, to, type) returns: the
\* cell of the key, undefined when the key has no cell yet.
CellOf(from, to, type) ==
  IF SignalKey(from, to, type) \in DOMAIN messageSignals
  THEN messageSignals[SignalKey(from, to, type)]
  ELSE Undefined

\* C11: delivery is synchronous. Whenever the store is non-empty, the record
\* published last is already the last entry of the list of the addressed
\* feature subscriber that was registered when the call started and already the
\* value of the shell's cell of its key; and no registered, addressed
\* subscriber lacks a record of the store published since it registered.
C11_DeliveredWhenSendReturns ==
  /\ messageStore # <<>> =>
        /\ \A appName \in FeatureApps :
             (serviceConstructed(appName) /\ regAt[appName] < Len(messageStore)
                /\ LastStored.to = appName)
             => (messages[appName] # <<>>
                 /\ messages[appName][Len(messages[appName])] = LastStored)
        /\ CellOf(LastStored.from, LastStored.to, LastStored.type) = Some(LastStored)
  /\ \A appName \in FeatureApps : \A i \in AddressedTo(appName) :
        (serviceConstructed(appName) /\ i > regAt[appName])
        => \E k \in DOMAIN messages[appName] : messages[appName][k] = messageStore[i]

\* C11 witness: feature one was registered, then the shell published a record
\* to it: the list ends with the record and the shell's cell holds it.
C11_Witness ==
  /\ Len(messageStore) = 2
  /\ regAt[FeatureOne] = 1
  /\ LastStored.from = SHELL_NAME /\ LastStored.to = FeatureOne
  /\ messages[FeatureOne] = <<LastStored>>
  /\ CellOf(SHELL_NAME, FeatureOne, LastStored.type) = Some(LastStored)

\* C12: no replay. The local list of a feature subscriber holds only records
\* published after it registered: its length is the number of records
\* getMessages returns on its handle less those stored before it registered,
\* and when every record addressed to it was stored before, the list is empty.
C12_NoReplay ==
  \A appName \in FeatureApps :
    LET before == {i \in AddressedTo(appName) : i <= regAt[appName]}
        since == {i \in AddressedTo(appName) : i > regAt[appName]}
    IN IF serviceConstructed(appName)
       THEN /\ Len(messages[appName]) + Cardinality(before)
                 = Len(getMessages(messageStore, appName, Undefined))
            /\ \A k \in DOMAIN messages[appName] :
                 \E i \in since : messages[appName][k] = messageStore[i]
       ELSE messages[appName] = <<>>

\* C12 witness: a record was published to feature one before its subscriber
\* registered; getMessages on its handle returns it, its local list is empty.
C12_Witness ==
  /\ serviceConstructed(FeatureOne)
  /\ regAt[FeatureOne] = 1
  /\ Len(messageStore) = 2
  /\ messageStore[1].to = FeatureOne
  /\ getMessages(messageStore, FeatureOne, Undefined) = <<messageStore[1]>>
  /\ messages[FeatureOne] = <<>>

\* A step in which a record is published (a sendMessage call returns).
Published == publishes' = publishes + 1

\* The record published by the step.
NewRecord == messageStore'[Len(messageStore')]

\* C13 (as claimed): on a notification a party's local state changes only when
\* the record's `to` is the party's own identifier: the shell's cells for
\* records addressed to the shell, a feature app's list for records addressed
\* to that app.
C13_EveryPartyFiltersByOwnIdentity ==
  [][Published =>
       /\ NewRecord.to # SHELL_NAME => messageSignals' = messageSignals
       /\ \A appName \in FeatureApps :
            NewRecord.to # appName => messages'[appName] = messages[appName]]_vars

\* Indices of the stored records with exactly this from, to and type.
WithKey(from, to, type) ==
  {i \in DOMAIN messageStore :
     /\ messageStore[i].from = from /\ messageStore[i].to = to
     /\ messageStore[i].type = type}

WritesCell(k) ==
  {i \in DOMAIN messageStore :
     \/ SignalKey(messageStore[i].from, messageStore[i].to, messageStore[i].type) = k
     \/ SignalKey(messageStore[i].from, messageStore[i].to, DefaultType) = k}

Stored(r) == \E i \in DOMAIN messageStore : messageStore[i] = r

\* C15: every record held in a cell of the shell and every record of a feature
\* app's local list is a record of the message store.
C15_ProjectionsHoldStoredRecords ==
  /\ \A k \in DOMAIN messageSignals :
        messageSignals[k] # Undefined => Stored(messageSignals[k][1])
  /\ \A appName \in FeatureApps : \A j \in DOMAIN messages[appName] :
        Stored(messages[appName][j])

\* C15 witness: two records were published to a listening feature one; its list
\* holds both and a cell of the shell holds the second.
C15_Witness ==
  /\ Len(messageStore) = 2
  /\ messageStore[1] # messageStore[2]
  /\ messages[FeatureOne] = messageStore
  /\ CellOf(messageStore[2].from, FeatureOne, messageStore[2].type) = Some(messageStore[2])

\* The records that the shell's App binds to its UI: the cells of the default
\* messages of feature one and of feature two to the shell.
ShellView ==
  {c[1] : c \in {CellOf(FeatureOne, SHELL_NAME, DefaultType),
                 CellOf(FeatureTwo, SHELL_NAME, DefaultType)} \ {Undefined}}

\* C16 (as claimed, for the applications that were listening when the record
\* was published): the view state of every application holds every record
\* addressed to it: the shell's view every record a feature app sent to the
\* shell, a feature app's list every record sent to it since it registered.
C16_EveryViewHoldsCompleteHistory ==
  /\ \A i \in AddressedTo(SHELL_NAME) :
        messageStore[i].from \in FeatureApps => messageStore[i] \in ShellView
  /\ \A appName \in FeatureApps : \A i \in AddressedTo(appName) :
        (serviceConstructed(appName) /\ i > regAt[appName])
        => \E k \in DOMAIN messages[appName] : messages[appName][k] = messageStore[i]

\* C17: a feature app's local list is a subsequence of the store that takes no
\* stored record twice and keeps the store's order, and getMessagesFrom(source)
\* returns exactly its entries with `from` = source, in that order.
C17_LocalListKeepsPublishOrder ==
  \A appName \in FeatureApps :
    \E idx \in SUBSET DOMAIN messageStore :
      /\ ListsInOrder(messages[appName], idx)
      /\ \A source \in Owners :
           ListsInOrder(getMessagesFrom(appName, source),
                        {i \in idx : messageStore[i].from = source})

\* C17 witness: the shell and then feature two sent to a listening feature
\* one; its list is in publish order and getMessagesFrom picks each by sender.
C17_Witness ==
  /\ Len(messageStore) = 2
  /\ messageStore[1].from = SHELL_NAME /\ messageStore[2].from = FeatureTwo
  /\ messages[FeatureOne] = messageStore
  /\ getMessagesFrom(FeatureOne, SHELL_NAME) = <<messageStore[1]>>
  /\ getMessagesFrom(FeatureOne, FeatureTwo) = <<messageStore[2]>>

\* C18: the append precedes the broadcast. The store that the listeners of the
\* last notification could read ends with the record of that notification, so
\* getMessages on the addressee's handle returns it last and getLatestMessage
\* of its type finds a record.
C18_AppendPrecedesBroadcast ==
  lastEvent # Undefined =>
    LET r == lastEvent[1]
        seen == getMessages(storeAtDispatch, r.to, Undefined)
    IN /\ storeAtDispatch # <<>>
       /\ storeAtDispatch[Len(storeAtDispatch)] = r
       /\ storeAtDispatch = messageStore
       /\ seen # <<>> /\ seen[Len(seen)] = r
       /\ getLatestMessage(storeAtDispatch, r.to, r.type) # Undefined

\* C18 witness: a second notification was dispatched while the store already
\* held the second record.
C18_Witness ==
  /\ dispatched = 2
  /\ Len(storeAtDispatch) = 2
  /\ lastEvent = Some(storeAtDispatch[2])
  /\ storeAtDispatch[1] # storeAtDispatch[2]

\* C19 (as claimed): once micro frontend X has published a record of type
\* 'default' to the shell, the cell created at construction for the messages
\* from X to the shell (key `${X}:default`) holds the last such record.
C19_ConstructionCellTracksMessagesToShell ==
  \A i \in DOMAIN microfrontends :
    LET X == microfrontends[i]
    IN WithKey(X, SHELL_NAME, DefaultType) # {} =>
         messageSignals[X \o ":" \o DefaultType]
           = Some(messageStore[Max(WithKey(X, SHELL_NAME, DefaultType))])

\* C20: in the shell-hosted composition init() has run before any feature
\* component is constructed. Once App is constructed every identity has its
\* handle, and feature two constructed by the shell's router has its
\* constructor-time message stored and is not answered by the warning.
C20_ShellInitialisesBeforeFeatures ==
  /\ [](appConstructed => \A name \in Owners : HasApi(name))
  /\ [][RouteTwo =>
          /\ outcome' = "sent"
          /\ messageStore' = Append(messageStore, NewRecord)
          /\ NewRecord.from = FeatureTwo /\ NewRecord.to = SHELL_NAME
          /\ NewRecord.payload = HelloFromFeatureTwo
          /\ earlySendDropped' = earlySendDropped]_vars

\* C20 witness: App was constructed, then the router constructed feature two:
\* the store holds its message and no send was ever dropped.
C20_Witness ==
  /\ appConstructed
  /\ ~earlySendDropped
  /\ outcome = "sent"
  /\ Len(messageStore) = 1
  /\ messageStore[1] = Message(FeatureTwo, SHELL_NAME, DefaultType, HelloFromFeatureTwo,
                                messageStore[1].timestamp)
  /\ regAt[FeatureTwo] = 0

\* C21: the all-micro-frontends view calls init() only when the registry is
\* absent. In the shell application, once App is constructed the registry is
\* there and the shell has exactly one listener (so its handler runs once per
\* notification), and an activation of the view changes neither the registry
\* nor the listeners.
C21_ViewActivationAddsNoListener ==
  /\ [](appConstructed => (CentralizedAPI.defined /\ ShellListeners = 1))
  /\ [][(appConstructed /\ viewActivations' = viewActivations + 1)
          => (CentralizedAPI' = CentralizedAPI /\ listeners' = listeners)]_vars

\* C21 witness: App was constructed, the view was activated twice, and a
\* notification was handled with a single shell listener registered.
C21_Witness ==
  /\ appConstructed
  /\ viewActivations = 2
  /\ ShellListeners = 1
  /\ dispatched = 1
  /\ lastEvent = Some(messageStore[1])
  /\ CellOf(messageStore[1].from, messageStore[1].to, messageStore[1].type)
       = Some(messageStore[1])

\* The cells after a single shell listener has handled, one by one, the records
\* of s, starting from the cells of the constructor.
RECURSIVE HandledOnce(_)
HandledOnce(s) ==
  IF s = <<>> THEN initializeSignals
  ELSE ShellListener(HandledOnce(SubSeq(s, 1, Len(s) - 1)), s[Len(s)])

\* C22: init() is idempotent for the observable state. However many times it
\* has run, every cell holds what one listener handling the stored records in
\* turn leaves in it, every feature list holds the records addressed to the app
\* since it registered, each once, and the store has one record per publish; a
\* step that runs init() changes neither the store, nor a cell's value, nor a
\* list, nor what getMessages and getLatestMessage return.
C22_InitIsIdempotent ==
  /\ [](/\ DOMAIN HandledOnce(messageStore) \subseteq DOMAIN messageSignals
        /\ \A k \in DOMAIN messageSignals :
              messageSignals[k] = IF k \in DOMAIN HandledOnce(messageStore)
                                  THEN HandledOnce(messageStore)[k] ELSE Undefined
        /\ \A appName \in FeatureApps :
              ListsInOrder(messages[appName],
                           {i \in AddressedTo(appName) :
                              serviceConstructed(appName) /\ i > regAt[appName]})
        /\ Len(messageStore) = publishes)
  /\ [][ShellListeners' = ShellListeners + 1 =>
          /\ messageStore' = messageStore
          /\ messages' = messages
          /\ \A k \in DOMAIN messageSignals :
                k \in DOMAIN messageSignals' /\ messageSignals'[k] = messageSignals[k]
          /\ \A owner \in Owners, type \in Types :
                /\ getMessages(messageStore', owner, Undefined)
                     = getMessages(messageStore, owner, Undefined)
                /\ getLatestMessage(messageStore', owner, type)
                     = getLatestMessage(messageStore, owner, type)]_vars

\* C22 witness: init(), a publish, feature one registered, init() again, then
\* feature two constructed: its message was handled by two shell listeners and
\* is in its cell once; the record stored before the second init() is still
\* returned on the handles.
C22_Witness ==
  /\ listeners = <<SHELL_NAME, FeatureOne, SHELL_NAME, FeatureTwo>>
  /\ regAt[FeatureOne] = 1 /\ regAt[FeatureTwo] = 1
  /\ Len(messageStore) = 2
  /\ messageStore[2].from = FeatureTwo
  /\ CentralizedAPI.defined
  /\ CellOf(FeatureTwo, SHELL_NAME, DefaultType) = Some(messageStore[2])
  /\ \E k \in DOMAIN getMessages(messageStore, messageStore[1].to, Undefined) :
        getMessages(messageStore, messageStore[1].to, Undefined)[k] = messageStore[1]

\* C23: cells are stable. Every key of messageSignals holds the first cell ever
\* created for it, a key once present keeps its cell in every step, and
\* getMessageSignal returns the cell under the key, the same one on a repeated
\* call; so the cell that App takes in its field initialisers is the cell that
\* later notifications set.
C23_CellsAreStable ==
  /\ [](/\ DOMAIN signalRefs = DOMAIN messageSignals
        /\ \A k \in DOMAIN signalRefs : signalRefs[k] = NewCell(<<>>, k)
        /\ \A fromMf \in Owners, toMf \in Owners, type \in Types :
              LET once == getMessageSignalRefs(signalRefs, fromMf, toMf, type)
                  key == SignalKey(fromMf, toMf, type)
              IN /\ key \in DOMAIN signalRefs => once = signalRefs
                 /\ getMessageSignalRefs(once, fromMf, toMf, type) = once
                 /\ once[key] = NewCell(<<>>, key))
  /\ [][\A k \in DOMAIN signalRefs :
          k \in DOMAIN signalRefs' /\ signalRefs'[k] = signalRefs[k]]_vars

\* C23 witness: App took its cells before any publish (its init() is the only
\* one), then feature one published twice to the shell: the cell of the key
\* holds the second record and is still the first cell created for the key.
C23_Witness ==
  /\ appConstructed
  /\ ShellListeners = 1
  /\ Len(messageStore) = 2
  /\ \A i \in DOMAIN messageStore :
        /\ messageStore[i].from = FeatureOne /\ messageStore[i].to = SHELL_NAME
        /\ messageStore[i].type = DefaultType
  /\ messageStore[1] # messageStore[2]
  /\ messageSignals[SignalKey(FeatureOne, SHELL_NAME, DefaultType)] = Some(messageStore[2])
  /\ signalRefs[SignalKey(FeatureOne, SHELL_NAME, DefaultType)] = 0

\* C24 (as claimed): distinct triples (from, to, type) never share a cell, also
\* for targets and types with a ':' in them: the cell that
\* getMessageSignal(from, to, type) returns never holds a record of another
\* triple.
C24_DistinctTriplesNeverShareACell ==
  \A to \in FreeFormTargets, type \in FreeFormTypes :
    LET cell == CellOf(SHELL_NAME, to, type)
    IN cell # Undefined =>
         /\ cell[1].from = SHELL_NAME
         /\ cell[1].to = to
         /\ cell[1].type = type

\* C25: getMessages and getLatestMessage are read-only. A step that is a call
\* of either leaves the store (content and order), the cells, the feature
\* lists and the registry as they were and dispatches no notification.
C25_QueriesAreReadOnly ==
  [][(GetMessages \/ GetLatestMessage) =>
       /\ messageStore' = messageStore
       /\ messageSignals' = messageSignals /\ signalRefs' = signalRefs
       /\ messages' = messages
       /\ CentralizedAPI' = CentralizedAPI
       /\ dispatched' = dispatched /\ lastEvent' = lastEvent]_vars

\* C25 witness: the registry is there and the store holds two records of one
\* addressee and type with the older one first, the order that the sort inside
\* getLatestMessage reverses in its copy: the query returns the second record
\* and getMessages returns both in store order.
C25_Witness ==
  /\ CentralizedAPI.defined
  /\ Len(messageStore) = 2
  /\ messageStore[1].to = messageStore[2].to
  /\ messageStore[1].type = messageStore[2].type
  /\ messageStore[1].timestamp < messageStore[2].timestamp
  /\ getLatestMessage(messageStore, messageStore[1].to, messageStore[1].type)
       = Some(messageStore[2])
  /\ getMessages(messageStore, messageStore[1].to, Undefined) = messageStore
  /\ ENABLED GetLatestMessage

\* C26: the caller cannot choose the sender. Every stored record has as `from`
\* a manifest name or the shell's name, and the record that a publish appends
\* has as `from` the owner of the handle that was called, a handle of the
\* registry, with the `to`, type and payload that were passed.
C26_SenderIsTheHandleOwner ==
  /\ [](\A i \in DOMAIN messageStore :
          messageStore[i].from \in {microfrontends[j] : j \in DOMAIN microfrontends}
                                     \cup {SHELL_NAME})
  /\ [][Published =>
          /\ lastCall' # Undefined
          /\ lastCall'[1].owner \in CentralizedAPI.owners
          /\ NewRecord.from = lastCall'[1].owner
          /\ NewRecord.to = lastCall'[1].to
          /\ NewRecord.type = lastCall'[1].type
          /\ NewRecord.payload = lastCall'[1].payload]_vars

\* C26 witness: feature one's handle was called with another identity as
\* target; the stored record is from feature one.
C26_Witness ==
  /\ Len(messageStore) = 2
  /\ lastCall = Some([owner |-> FeatureOne, to |-> FeatureTwo, type |-> "", payload |-> "b"])
  /\ messageStore[2].from = FeatureOne
  /\ messageStore[2].to = FeatureTwo
  /\ messageStore[1].from = SHELL_NAME

\* appName's listener is on window and was put there before any init().
RegisteredBeforeInit(appName) ==
  \E i \in DOMAIN listeners :
    /\ listeners[i] = appName
    /\ \A j \in 1..(i - 1) : listeners[j] # SHELL_NAME

\* C27: a feature app's listener is registered at construction whether or not
\* the registry is there. A feature two whose constructor-time send was dropped
\* has its listener on window since before init(); and a feature app
\* registered before init() has one listener, never a second, and its list
\* holds every record addressed to it, in publish order.
C27_EarlySubscriberReceivesLaterRecords ==
  /\ earlySendDropped => RegisteredBeforeInit(FeatureTwo)
  /\ \A appName \in FeatureApps :
        RegisteredBeforeInit(appName) =>
          /\ Len(SelectSeq(listeners, LAMBDA l : l = appName)) = 1
          /\ regAt[appName] = 0
          /\ ListsInOrder(messages[appName], AddressedTo(appName))

\* C27 witness: feature two was constructed before init() and its send was
\* dropped; after init() two records were published to it and its list holds
\* both.
C27_Witness ==
  /\ earlySendDropped
  /\ listeners[1] = FeatureTwo
  /\ Len(messageStore) = 2
  /\ messageStore[1] # messageStore[2]
  /\ messages[FeatureTwo] = messageStore

\* C28: a displayed communication status is monotone. In no step does a
\* feature app's status for a source, or the shell's status, go from active
\* back to 'Waiting for message'.
C28_StatusNeverReturnsToWaiting ==
  [][/\ \A appName \in FeatureApps, source \in Owners :
          communicationStatus(appName, source) = Active
          => communicationStatus(appName, source)' = Active
     /\ shellCommunicationStatus # Waiting => shellCommunicationStatus' # Waiting]_vars

\* C28 witness: feature one received a record from the shell and then one from
\* feature two; its status for the shell is still active, and so is its status
\* for feature two.
C28_Witness ==
  /\ Len(messageStore) = 2
  /\ messageStore[1].from = SHELL_NAME /\ messageStore[2].from = FeatureTwo
  /\ messages[FeatureOne] = messageStore
  /\ communicationStatus(FeatureOne, SHELL_NAME) = Active
  /\ communicationStatus(FeatureOne, FeatureTwo) = Active
  /\ communicationStatus(FeatureOne, FeatureOne) = Waiting

====
